---- MODULE Spec2Model ----
(***************************************************************************)
(* Model of the Russian clipboard reader, src/main(gui).py:                *)
(*   - WorkerThread: the clipboard watcher loop (run), the enrichment and  *)
(*     synthesis step (text_to_speech_russian), playback (play_audio);     *)
(*   - MainWindow: start/stop of the worker, delivery of the worker's      *)
(*     queued signals, the word history store (load/save/add/clear).       *)
(* Two threads: the GUI thread (MainWindow handlers, one at a time, with   *)
(* nested event loops inside modal dialogs) and the worker thread.         *)
(***************************************************************************)
EXTENDS Integers, Sequences, FiniteSets, TLC

(***************************************************************************)
(* Bounds of the model                                                     *)
(***************************************************************************)
MaxWorkers == 2
MaxCopies == 2
MaxElapsed == 2
MaxCooldown == 1
MaxObs == 3
MaxQueue == 1
MaxLog == 2
MaxLen == 3

(***************************************************************************)
(* Characters and texts.  A text is a sequence of characters; a character  *)
(* is named by its class: ru_* are Russian letters, uk_i is a letter       *)
(* of U+0400..U+04FF outside that set, cy_th the thousands sign U+0482,    *)
(* a symbol of that block, la_z a Latin letter, us the underscore, dg_7 a  *)
(* digit, sp white space, pn punctuation.                                  *)
(***************************************************************************)
RussianLetters == {"ru_a", "ru_b"}
CyrillicRange == RussianLetters \cup {"uk_i", "cy_th"}
WhiteSpace == {"sp"}
Digits == {"dg_7"}
NonWord == {"pn", "cy_th"} \cup WhiteSpace
Chars == CyrillicRange \cup {"la_z", "us"} \cup Digits \cup NonWord

EmptyText == << >>
BlankText == <<"sp">>
TextA == <<"ru_a">>
TextB == <<"ru_b", "sp", "ru_a", "ru_b">>
TextZ == <<"la_z">>
ClipTexts == {EmptyText, BlankText, TextA, TextB, TextZ}

\* len(re.findall(pattern, text)) for a one-character class
RECURSIVE CountIn(_, _)
CountIn(text, class) ==
    IF text = << >> THEN 0
    ELSE (IF Head(text) \in class THEN 1 ELSE 0) + CountIn(Tail(text), class)

\* text.strip(): leading and trailing white space removed
RECURSIVE LStrip(_)
LStrip(text) ==
    IF text # << >> /\ Head(text) \in WhiteSpace THEN LStrip(Tail(text)) ELSE text

RECURSIVE RStrip(_)
RStrip(text) ==
    IF text # << >> /\ text[Len(text)] \in WhiteSpace
    THEN RStrip(SubSeq(text, 1, Len(text) - 1))
    ELSE text

Strip(text) == RStrip(LStrip(text))

\* WorkerThread.is_russian_text
is_russian_text(text) ==
    IF text = << >> \/ Strip(text) = << >> THEN FALSE
    ELSE LET russian_chars == CountIn(text, CyrillicRange)
             total_letters == CountIn(text, Chars \ (WhiteSpace \cup Digits \cup NonWord))
         IN  IF total_letters = 0 THEN FALSE
             ELSE 2 * russian_chars > total_letters

\* re.findall of the Russian-letter class, one or more: the maximal runs
RECURSIVE FindWords(_, _)
FindWords(text, cur) ==
    IF text = << >> THEN (IF cur = << >> THEN << >> ELSE <<cur>>)
    ELSE IF Head(text) \in RussianLetters
         THEN FindWords(Tail(text), Append(cur, Head(text)))
         ELSE (IF cur = << >> THEN << >> ELSE <<cur>>) \o FindWords(Tail(text), << >>)

\* morph_analyzer.parse(word)[0].normal_form: the external analyzer's lemma,
\* here the word without its ending (its first letter)
normal_form(word) == IF Len(word) > 1 THEN <<word[1]>> ELSE word

(***************************************************************************)
(* Translator results                                                      *)
(***************************************************************************)
TranslationFailed == "translation_failed"   \* the failure sentinel literal
TransVals == {"", "t1", "t2"}               \* what translator.translate can return
OneAnswer == {"t1"}                         \* a translator with one answer

(***************************************************************************)
(* The word history: an OrderedDict, modelled as a sequence of <<key,      *)
(* value>> pairs with distinct keys, in insertion order.                   *)
(***************************************************************************)
EmptyDict == << >>

DictKeys(d) == {d[i][1] : i \in 1..Len(d)}

\* d[k] = v: overwrite in place, or insert at the end
DictSet(d, k, v) ==
    IF k \in DictKeys(d)
    THEN [i \in 1..Len(d) |-> IF d[i][1] = k THEN <<k, v>> ELSE d[i]]
    ELSE Append(d, <<k, v>>)

(***************************************************************************)
(* The durable file and pickle.  A file is a sequence of pickle tokens:    *)
(* the protocol header, one item per entry, the STOP opcode.               *)
(***************************************************************************)
Tok(op, k, v) == [op |-> op, k |-> k, v |-> v]
ProtoTok == Tok("PROTO", << >>, "")
StopTok == Tok("STOP", << >>, "")

NoFile == [exists |-> FALSE, bytes |-> << >>]

\* pickle.dump(word_history, f): the bytes written
Dump(d) ==
    <<ProtoTok>> \o [i \in 1..Len(d) |-> Tok("ITEM", d[i][1], d[i][2])] \o <<StopTok>>

\* whether pickle.load(f) returns instead of raising
Loadable(bytes) ==
    /\ Len(bytes) >= 2
    /\ bytes[1] = ProtoTok
    /\ bytes[Len(bytes)] = StopTok
    /\ \A i \in 2..(Len(bytes) - 1) : bytes[i].op = "ITEM"

RECURSIVE LoadItems(_, _)
LoadItems(items, d) ==
    IF items = << >> THEN d
    ELSE LoadItems(Tail(items), DictSet(d, Head(items).k, Head(items).v))

\* pickle.load(f) of a loadable file
Load(bytes) == LoadItems(SubSeq(bytes, 2, Len(bytes) - 1), EmptyDict)

\* Outcome of one save_word_history call: -1, open() fails; n >= 0, the
\* number of tokens that reach the file before the write fails, the write
\* being complete when n covers the whole dump.
NormalForms == {normal_form(w) : w \in {<<"ru_a">>, <<"ru_b">>, <<"ru_a", "ru_b">>}}
MaxFileLen == 2 + Cardinality(NormalForms)
SaveOutcomes == (-1)..MaxFileLen
SaveSucceeds == {MaxFileLen}

(***************************************************************************)
(* State                                                                   *)
(***************************************************************************)
VARIABLES
    clipboard,          \* the system clipboard's text (pyperclip.paste())
    now,                \* the wall clock (time.time())
    copies,             \* number of clipboard changes made so far (bounded)
    workers,            \* the WorkerThread objects created so far, by number
    worker_thread,      \* MainWindow.worker_thread: a worker's number, 0 for None
    gui,                \* where the GUI thread is
    word_history,       \* MainWindow.word_history
    word_translations,  \* MainWindow.word_translations
    file,               \* the file at WORD_HISTORY_PATH
    last_log,           \* the latest message the GUI thread appended to its log
    last_save,          \* the message of the latest save_word_history call
    sigq,               \* word_analysis_signal emissions queued for the GUI thread
    ref_history,        \* history variable: the reference map of the store's operations
    observed,           \* history variable: the contents the current worker's polls read
    logq,               \* log_signal emissions of per-word translation lines, queued
    log_messages,       \* MainWindow.log_messages: its per-word translation lines
    export,             \* the export handler inside its save-path dialog
    export_file,        \* the file at the path the user exports to
    call                \* history variable: the latest recorded call and what it returned

vars == <<clipboard, now, copies, workers, worker_thread, gui, word_history,
          word_translations, file, last_log, last_save, sigq, ref_history, observed,
          logq, log_messages, export, export_file, call>>

env_vars == <<clipboard, now, copies>>
store_vars == <<word_history, word_translations, file, last_log, last_save>>
aux_vars == <<logq, log_messages, export, export_file, call>>

\* No export under way, no file at the export path, no call recorded
NoExport == [kind |-> "none", words |-> << >>]
NoExportFile == [exists |-> FALSE, kind |-> "none", total |-> -1, lines |-> << >>]
NoCall == [fn |-> "none"]

WorkerIds == 1..MaxWorkers

\* The wall clock when the program starts: time.time() is far above every
\* cooldown, so that (current_time - 0) >= process_cooldown at a first poll.
Epoch == MaxCooldown
MaxTime == Epoch + MaxElapsed
Cooldowns == {0, MaxCooldown}

(***************************************************************************)
(* WorkerThread                                                            *)
(***************************************************************************)
\* The libraries of the providers that are installed (the imports of
\* init_tools, and MORPH_AVAILABLE)
Libs == [tsnorm : BOOLEAN, deep_translator : BOOLEAN, pymorphy3 : BOOLEAN]
AllLibs == [tsnorm |-> TRUE, deep_translator |-> TRUE, pymorphy3 |-> TRUE]

\* The parameters start_monitoring reads from the form
Configs ==
    [process_cooldown : Cooldowns,
     stress_enabled : BOOLEAN,
     translation_enabled : BOOLEAN,
     morphology_enabled : BOOLEAN]

\* WorkerThread.init_tools: a tool is built when its feature is enabled and
\* its library is there, and is left as it is otherwise
init_tools(w, libs) ==
    [w EXCEPT !.normalizer = IF w.stress_mark_enabled /\ libs.tsnorm THEN TRUE ELSE @,
              !.translator = IF w.translation_enabled /\ libs.deep_translator THEN TRUE ELSE @,
              !.morph_analyzer = IF w.morphology_enabled /\ libs.pymorphy3 THEN TRUE ELSE @]

\* A WorkerThread object that does not exist (yet).  Next to the fields of
\* the object: pc, where its thread is; status, the status it emitted last;
\* cycle, how its last cycle ended; completed_at, when that cycle ended.
NoWorker ==
    [pc |-> "none",
     is_running |-> FALSE,
     is_processing |-> FALSE,
     process_cooldown |-> MaxCooldown,
     stress_mark_enabled |-> TRUE,
     translation_enabled |-> TRUE,
     morphology_enabled |-> TRUE,
     normalizer |-> FALSE,
     translator |-> FALSE,
     morph_analyzer |-> FALSE,
     last_content |-> EmptyText,
     last_process_time |-> 0,
     processed_count |-> 0,
     status |-> "",
     cycle |-> "none",
     completed_at |-> -1]

\* WorkerThread.__init__: the object as constructed, not yet started
NewWorker(libs) == init_tools([NoWorker EXCEPT !.pc = "created"], libs)

\* WorkerThread.set_parameters
set_parameters(w, cfg, libs) ==
    init_tools([w EXCEPT !.process_cooldown = cfg.process_cooldown,
                         !.stress_mark_enabled = cfg.stress_enabled,
                         !.translation_enabled = cfg.translation_enabled,
                         !.morphology_enabled = cfg.morphology_enabled],
               libs)

\* isRunning read off the worker's own is_running flag
isRunningFlag(w) == workers[w].is_running

\* QThread.isRunning(): from start() until run() has returned
isRunning(w) == workers[w].pc \in {"started", "top", "processing", "sleeping"}

\* normalizer(text): the stress mark U+0301 put after the first Russian letter
RECURSIVE Normalize(_)
Normalize(text) ==
    IF text = << >> THEN << >>
    ELSE IF Head(text) \in RussianLetters THEN <<Head(text), "acute">> \o Tail(text)
         ELSE <<Head(text)>> \o Normalize(Tail(text))

\* WorkerThread.add_stress_marks; out: "ok", or "raise" when the call raises
add_stress_marks(w, text, out) ==
    IF ~w.stress_mark_enabled \/ ~w.normalizer THEN [text |-> text, ok |-> FALSE]
    ELSE IF out = "ok" THEN [text |-> Normalize(text), ok |-> TRUE]
         ELSE [text |-> text, ok |-> FALSE]

\* WorkerThread.translate_russian; out: the translator's answer, or "raise"
translate_russian(w, text, out) ==
    IF ~w.translation_enabled \/ ~w.translator THEN [text |-> "", ok |-> FALSE]
    ELSE IF out # "raise" THEN [text |-> out, ok |-> TRUE]
         ELSE [text |-> "", ok |-> FALSE]

\* WorkerThread.morphological_analysis; out: "ok", or "raise" when parse raises
morphological_analysis(w, text, out) ==
    IF ~w.morphology_enabled \/ ~w.morph_analyzer
    THEN [report |-> "", ok |-> FALSE, word_analysis |-> << >>]
    ELSE LET words == FindWords(text, << >>)
         IN  IF words = << >>
             THEN [report |-> "no_words_found", ok |-> FALSE, word_analysis |-> << >>]
             ELSE IF out = "ok"
                  THEN [report |-> "lines", ok |-> TRUE,
                        word_analysis |->
                            [i \in 1..Len(words) |->
                                [original |-> words[i],
                                 normal_form |-> normal_form(words[i])]]]
                  ELSE [report |-> "analysis_failed", ok |-> FALSE,
                        word_analysis |-> << >>]

\* translate_words with a loop that the first failing call ends
translate_words_abort(w, word_analysis, outs) ==
    IF word_analysis # << >> /\ w.translator
    THEN LET failed == {i \in 1..Len(word_analysis) : outs[i] = "raise"}
             n == IF failed = {} THEN Len(word_analysis)
                  ELSE CHOOSE i \in failed : \A j \in failed : i <= j
         IN  [i \in 1..n |->
                <<word_analysis[i].normal_form,
                  IF outs[i] = "raise" THEN TranslationFailed ELSE outs[i]>>]
    ELSE << >>

\* The per-word loop of text_to_speech_russian (lines 335-348)
translate_words(w, word_analysis, outs) ==
    IF word_analysis # << >> /\ w.translator
    THEN [i \in 1..Len(word_analysis) |->
            <<word_analysis[i].normal_form,
              IF outs[i] = "raise" THEN TranslationFailed ELSE outs[i]>>]
    ELSE << >>

\* The log lines of the per-word loop (line 345): one line <<original,
\* normal form, translation>> for every word whose call returns
word_log_lines(w, word_analysis, outs) ==
    IF word_analysis # << >> /\ w.translator
    THEN LET all == [i \in 1..Len(word_analysis) |->
                        <<word_analysis[i].original, word_analysis[i].normal_form, outs[i]>>]
         IN  SelectSeq(all, LAMBDA line : line[3] # "raise")
    ELSE << >>

\* text_to_speech_russian with stages that depend on each other: a stage
\* that fails leaves the fields of the stages after it empty
text_to_speech_chained(w, text, o) ==
    LET stress == add_stress_marks(w, text, o.stress)
        trans == translate_russian(w, text, o.trans)
        morph == morphological_analysis(w, text, o.morph)
        transOk == trans.ok /\ o.stress # "raise"
        morphOk == morph.ok /\ o.stress # "raise" /\ o.trans # "raise"
    IN  [result |-> [original |-> text,
                     stress |-> IF stress.ok THEN stress.text ELSE << >>,
                     translation |-> IF transOk THEN trans.text ELSE "",
                     morphology |-> IF morphOk THEN morph.report ELSE ""],
         word_analysis |-> morph.word_analysis,
         translated_words |-> translate_words(w, morph.word_analysis, o.words),
         spoken |-> CASE o.audio = "enhanced" -> stress.text
                      [] o.audio = "fallback" -> text
                      [] OTHER -> << >>,
         success |-> o.audio # "failed",
         stress_added |-> o.audio = "enhanced" /\ stress.ok]

\* text_to_speech_russian without the plain synthesis of lines 373-375
text_to_speech_no_fallback(w, text, o) ==
    LET stress == add_stress_marks(w, text, o.stress)
        trans == translate_russian(w, text, o.trans)
        morph == morphological_analysis(w, text, o.morph)
    IN  [result |-> [original |-> text,
                     stress |-> IF stress.ok THEN stress.text ELSE << >>,
                     translation |-> IF trans.ok THEN trans.text ELSE "",
                     morphology |-> IF morph.ok THEN morph.report ELSE ""],
         word_analysis |-> morph.word_analysis,
         translated_words |-> translate_words(w, morph.word_analysis, o.words),
         spoken |-> IF o.audio = "enhanced" THEN stress.text ELSE << >>,
         success |-> o.audio = "enhanced",
         stress_added |-> o.audio = "enhanced" /\ stress.ok]

\* WorkerThread.text_to_speech_russian.  o gives what each provider call
\* does: o.stress, o.trans, o.morph, o.words (per word), and o.audio:
\* "enhanced" (lines 354-368 complete), "fallback" (they fail and the plain
\* synthesis of lines 373-375 completes), "failed" (both fail).
text_to_speech_russian(w, text, o) ==
    LET stress == add_stress_marks(w, text, o.stress)
        trans == translate_russian(w, text, o.trans)
        morph == morphological_analysis(w, text, o.morph)
    IN  [result |-> [original |-> text,
                     stress |-> IF stress.ok THEN stress.text ELSE << >>,
                     translation |-> IF trans.ok THEN trans.text ELSE "",
                     morphology |-> IF morph.ok THEN morph.report ELSE ""],
         word_analysis |-> morph.word_analysis,
         translated_words |-> translate_words(w, morph.word_analysis, o.words),
         spoken |-> CASE o.audio = "enhanced" -> stress.text
                      [] o.audio = "fallback" -> text
                      [] OTHER -> << >>,
         success |-> o.audio # "failed",
         stress_added |-> o.audio = "enhanced" /\ stress.ok]

\* What the provider calls that one text_to_speech_russian call makes can do
\* ("none": the call is not made; "raise": it raises); answers: what the
\* translator can return for a word
EnrichOutcomes(w, text, answers) ==
    LET n == Len(FindWords(text, << >>))
        stressOuts == IF w.stress_mark_enabled /\ w.normalizer
                      THEN {"ok", "raise"} ELSE {"none"}
        transOuts == IF w.translation_enabled /\ w.translator
                     THEN {"t1", "raise"} ELSE {"none"}
        morphOuts == IF w.morphology_enabled /\ w.morph_analyzer /\ n > 0
                     THEN {"ok", "raise"} ELSE {"none"}
        wordOuts(m) == IF m = "ok" /\ w.translator
                       THEN [1..n -> answers \cup {"raise"}] ELSE {<< >>}
    IN  UNION {
          {[stress |-> x[1], trans |-> x[2], morph |-> x[3], words |-> ws,
            audio |-> x[4]] : ws \in wordOuts(x[3])} :
          x \in stressOuts \X transOuts \X morphOuts
                \X {"enhanced", "fallback", "failed"} }

\* WorkerThread.play_audio: "ok", "fail" (non-zero exit status), "raise"
\* (the subprocess call raises, caught at line 408); True only for "ok"
PlayOutcomes == {"ok", "fail", "raise"}
play_audio(out) == out = "ok"

\* What one cycle (lines 438-458) can meet.  err: where an exception that no
\* handler of the cycle catches is raised, if at all: "early", before
\* text_to_speech_russian (lines 438-444); "late", after it (lines 449-458).
\* o: the provider calls of text_to_speech_russian; play: of play_audio.
NoCalls == [stress |-> "none", trans |-> "none", morph |-> "none", words |-> << >>,
            audio |-> "failed"]
CycleOutcomes(w, text, answers) ==
    IF is_russian_text(text)
    THEN {[err |-> "early", o |-> NoCalls, play |-> "none"]}
         \cup
         UNION {
           {[err |-> e, o |-> o, play |-> p] :
               p \in IF o.audio = "failed" THEN {"none"} ELSE PlayOutcomes,
               e \in {"none", "late"}} :
           o \in EnrichOutcomes(w, text, answers) }
    ELSE {[err |-> "none", o |-> NoCalls, play |-> "none"],
          [err |-> "early", o |-> NoCalls, play |-> "none"]}

\* TriggerCond without the test of the stripped content
TriggerCondNoStrip(w, current_content, current_time) ==
    /\ current_content # << >>
    /\ current_content # w.last_content
    /\ (current_time - w.last_process_time) >= w.process_cooldown

\* TriggerCond without the comparison with last_content
TriggerCondNoLast(w, current_content, current_time) ==
    /\ current_content # << >>
    /\ Strip(current_content) # << >>
    /\ (current_time - w.last_process_time) >= w.process_cooldown

\* The trigger condition of run (lines 428-431)
TriggerCond(w, current_content, current_time) ==
    /\ current_content # << >>
    /\ current_content # w.last_content
    /\ Strip(current_content) # << >>
    /\ (current_time - w.last_process_time) >= w.process_cooldown

\* The end of run: the finally clause (lines 467-469)
RunEnd(w) == [w EXCEPT !.pc = "finished", !.status = "stopped"]

\* cycle_end with a play_audio that lets the exception of its subprocess
\* call escape into run's handler
cycle_end_play_raises(w, success, c) ==
    IF c.err = "late" THEN RunEnd([w EXCEPT !.cycle = "error"])
    ELSE IF success /\ c.play = "raise" THEN RunEnd([w EXCEPT !.cycle = "play_failed"])
    ELSE [w EXCEPT !.cycle = IF ~success THEN "synth_failed"
                             ELSE IF play_audio(c.play) THEN "played"
                             ELSE "play_failed",
                   !.is_processing = FALSE,
                   !.pc = "sleeping"]

\* run, lines 449-461, after text_to_speech_russian has returned success:
\* playback and its log message, then the busy flag is cleared, unless an
\* exception escapes (c.err = "late")
cycle_end(w, success, c) ==
    IF c.err = "late" THEN RunEnd([w EXCEPT !.cycle = "error"])
    ELSE [w EXCEPT !.cycle = IF ~success THEN "synth_failed"
                             ELSE IF play_audio(c.play) THEN "played"
                             ELSE "play_failed",
                   !.is_processing = FALSE,
                   !.pc = "sleeping"]

\* run, lines 414-416: the thread begins to execute
RunBegin(i) ==
    /\ workers[i].pc = "started"
    /\ workers' = [workers EXCEPT ![i] =
          [@ EXCEPT !.pc = "top", !.is_running = TRUE, !.status = "monitoring"]]
    /\ UNCHANGED <<env_vars, worker_thread, gui, store_vars, sigq, ref_history, observed, aux_vars>>

\* run, line 419: the loop condition is false
LoopExit(i) ==
    /\ workers[i].pc = "top"
    /\ ~workers[i].is_running
    /\ workers' = [workers EXCEPT ![i] = RunEnd(@)]
    /\ UNCHANGED <<env_vars, worker_thread, gui, store_vars, sigq, ref_history, observed, aux_vars>>

\* Poll recording the content and the time of a trigger only when the
\* content is Russian
PollRecordsRussianOnly(i, paste) ==
    LET w == workers[i] IN
    /\ w.pc = "top"
    /\ w.is_running
    /\ workers' = [workers EXCEPT ![i] =
          IF w.is_processing THEN [w EXCEPT !.pc = "sleeping"]
          ELSE IF paste = "raise" THEN RunEnd(w)
          ELSE IF TriggerCond(w, clipboard, now)
               THEN IF is_russian_text(clipboard)
                    THEN [w EXCEPT !.pc = "processing",
                                   !.is_processing = TRUE,
                                   !.last_content = clipboard,
                                   !.last_process_time = now]
                    ELSE [w EXCEPT !.pc = "sleeping", !.cycle = "skipped"]
               ELSE [w EXCEPT !.pc = "sleeping"]]
    /\ UNCHANGED <<env_vars, worker_thread, gui, store_vars, sigq, ref_history, aux_vars>>

\* Poll recording the content it rejects because the cooldown has not
\* elapsed
PollRejectionRecords(i, paste) ==
    LET w == workers[i] IN
    /\ w.pc = "top"
    /\ w.is_running
    /\ workers' = [workers EXCEPT ![i] =
          IF w.is_processing THEN [w EXCEPT !.pc = "sleeping"]
          ELSE IF paste = "raise" THEN RunEnd(w)
          ELSE IF TriggerCond(w, clipboard, now)
               THEN [w EXCEPT !.pc = "processing",
                              !.is_processing = TRUE,
                              !.last_content = clipboard,
                              !.last_process_time = now]
               ELSE [w EXCEPT !.pc = "sleeping",
                              !.last_content =
                                  IF Strip(clipboard) # << >> THEN clipboard ELSE @]]
    /\ UNCHANGED <<env_vars, worker_thread, gui, store_vars, sigq, ref_history, aux_vars>>

\* run, lines 419-436: one poll tick.  paste: whether pyperclip.paste()
\* returns ("ok") or raises ("raise", caught at line 465).
Poll(i, paste) ==
    LET w == workers[i] IN
    /\ w.pc = "top"
    /\ w.is_running
    /\ workers' = [workers EXCEPT ![i] =
          IF w.is_processing THEN [w EXCEPT !.pc = "sleeping"]
          ELSE IF paste = "raise" THEN RunEnd(w)
          ELSE IF TriggerCond(w, clipboard, now)
               THEN [w EXCEPT !.pc = "processing",
                              !.is_processing = TRUE,
                              !.last_content = clipboard,
                              !.last_process_time = now]
               ELSE [w EXCEPT !.pc = "sleeping"]]
    /\ UNCHANGED <<env_vars, worker_thread, gui, store_vars, sigq, ref_history, aux_vars>>

\* run, lines 438-461: the cycle of the accepted content
Process(i, answers) ==
    LET w == workers[i]
        text == w.last_content
    IN
    /\ w.pc = "processing"
    /\ \E c \in CycleOutcomes(w, text, answers) :
         IF is_russian_text(text)
         THEN LET counted == [w EXCEPT !.processed_count = @ + 1]
                  tts == text_to_speech_russian(counted, text, c.o)
              IN  IF c.err = "early"
                  THEN /\ workers' = [workers EXCEPT ![i] =
                              RunEnd([counted EXCEPT !.cycle = "error"])]
                       /\ sigq' = sigq
                  ELSE /\ sigq' = Append(sigq, tts.translated_words)
                       /\ workers' = [workers EXCEPT ![i] =
                              [cycle_end(counted, tts.success, c) EXCEPT
                                  !.completed_at = now]]
         ELSE /\ sigq' = sigq
              /\ workers' = [workers EXCEPT ![i] =
                    IF c.err = "early"
                    THEN RunEnd([w EXCEPT !.cycle = "error"])
                    ELSE [w EXCEPT !.cycle = "skipped",
                                   !.is_processing = FALSE,
                                   !.pc = "sleeping",
                                   !.completed_at = now]]
    /\ UNCHANGED <<env_vars, worker_thread, gui, store_vars, ref_history, observed, aux_vars>>

\* run, line 463: time.sleep(check_interval), then back to the loop condition
Sleep(i) ==
    /\ workers[i].pc = "sleeping"
    /\ workers' = [workers EXCEPT ![i] = [@ EXCEPT !.pc = "top"]]
    /\ UNCHANGED <<env_vars, worker_thread, gui, store_vars, sigq, ref_history, observed, aux_vars>>

\* WorkerThread.stop
stop(w) == [w EXCEPT !.is_running = FALSE]

(***************************************************************************)
(* MainWindow: the word history store                                      *)
(***************************************************************************)
\* The store as the handlers below pass it along
Store(wh, f, log, sv) ==
    [word_history |-> wh, file |-> f, last_log |-> log, last_save |-> sv]

\* MainWindow.save_word_history; out \in SaveOutcomes.  open(path, 'wb')
\* truncates the file before pickle.dump writes to it.
save_word_history(st, out) ==
    LET bytes == Dump(st.word_history) IN
    IF out < 0
    THEN [st EXCEPT !.last_log = "warning:save_failed", !.last_save = "warning"]
    ELSE IF out >= Len(bytes)
         THEN [st EXCEPT !.file = [exists |-> TRUE, bytes |-> bytes],
                         !.last_log = "info:saved", !.last_save = "info"]
         ELSE [st EXCEPT !.file = [exists |-> TRUE, bytes |-> SubSeq(bytes, 1, out)],
                         !.last_log = "warning:save_failed", !.last_save = "warning"]

\* add_word_to_history without the test of its arguments
add_word_no_filter(st, word, translation, out) ==
    save_word_history(
        [st EXCEPT !.word_history = DictSet(st.word_history, word, translation)],
        out)

\* add_word_to_history saving before it writes the entry
add_word_save_first(st, word, translation, out) ==
    IF word # << >> /\ translation # "" /\ translation # TranslationFailed
    THEN [save_word_history(st, out) EXCEPT
             !.word_history = DictSet(st.word_history, word, translation)]
    ELSE st

\* add_word_to_history taking the entry back when the save fails
add_word_rollback(st, word, translation, out) ==
    IF word # << >> /\ translation # "" /\ translation # TranslationFailed
    THEN LET saved == save_word_history(
                        [st EXCEPT !.word_history =
                            DictSet(st.word_history, word, translation)],
                        out)
         IN  IF saved.last_save = "warning"
             THEN [saved EXCEPT !.word_history = st.word_history]
             ELSE saved
    ELSE st

\* MainWindow.add_word_to_history
add_word_to_history(st, word, translation, out) ==
    IF word # << >> /\ translation # "" /\ translation # TranslationFailed
    THEN save_word_history(
            [st EXCEPT !.word_history = DictSet(st.word_history, word, translation)],
            out)
    ELSE st

\* add_all with a loop that ends at the first pair that is not added
RECURSIVE add_all_until_failure(_, _, _)
add_all_until_failure(st, pairs, saves) ==
    IF pairs = << >> THEN {st}
    ELSE IF Head(pairs)[1] = << >> \/ Head(pairs)[2] \in {"", TranslationFailed}
         THEN {st}
         ELSE UNION {add_all_until_failure(next, Tail(pairs), saves) :
                       next \in {add_word_to_history(st, Head(pairs)[1], Head(pairs)[2], out) :
                                   out \in saves}}

\* The loop of MainWindow.update_word_analysis (lines 1231-1232): the
\* stores it can end with, each save meeting one of saves
RECURSIVE add_all(_, _, _)
add_all(st, pairs, saves) ==
    IF pairs = << >> THEN {st}
    ELSE UNION {add_all(next, Tail(pairs), saves) :
                  next \in {add_word_to_history(st, Head(pairs)[1], Head(pairs)[2], out) :
                              out \in saves}}

\* load_word_history keeping, of a file it fails to read to its end, the
\* entries read before the failure
load_word_history_partial(st, readable) ==
    IF st.file.exists
    THEN IF readable /\ Loadable(st.file.bytes)
         THEN [st EXCEPT !.word_history = Load(st.file.bytes),
                         !.last_log = "success:loaded"]
         ELSE [st EXCEPT !.word_history =
                            LoadItems(SelectSeq(st.file.bytes, LAMBDA t : t.op = "ITEM"),
                                      EmptyDict),
                         !.last_log = "warning:load_failed"]
    ELSE [st EXCEPT !.last_log = "info:no_history_file"]

\* MainWindow.load_word_history; readable: whether open() and pickle.load()
\* get to the file's bytes without an I/O error
load_word_history(st, readable) ==
    IF st.file.exists
    THEN IF readable /\ Loadable(st.file.bytes)
         THEN [st EXCEPT !.word_history = Load(st.file.bytes),
                         !.last_log = "success:loaded"]
         ELSE [st EXCEPT !.word_history = EmptyDict,
                         !.last_log = "warning:load_failed"]
    ELSE [st EXCEPT !.last_log = "info:no_history_file"]

(***************************************************************************)
(* The reference map of the store (history variable ref_history): a set of *)
(* <<normal form, translation>> pairs                                      *)
(***************************************************************************)
AsMap(d) == {d[i] : i \in 1..Len(d)}

RefAdd(ref, word, translation) ==
    IF word = << >> \/ translation = "" \/ translation = TranslationFailed
    THEN ref
    ELSE {p \in ref : p[1] # word} \cup {<<word, translation>>}

RECURSIVE RefAddAll(_, _)
RefAddAll(ref, pairs) ==
    IF pairs = << >> THEN ref
    ELSE RefAddAll(RefAdd(ref, Head(pairs)[1], Head(pairs)[2]), Tail(pairs))

(***************************************************************************)
(* MainWindow: the handlers                                                *)
(***************************************************************************)
CurrentStore == Store(word_history, file, last_log, last_save)

SetStore(st) ==
    /\ word_history' = st.word_history
    /\ file' = st.file
    /\ last_log' = st.last_log
    /\ last_save' = st.last_save

\* MainWindow.__init__, line 492: the history is loaded at startup
LoadWordHistory ==
    /\ gui = "startup"
    /\ \E readable \in BOOLEAN : SetStore(load_word_history(CurrentStore, readable))
    /\ gui' = "idle"
    /\ ref_history' = AsMap(word_history')
    /\ UNCHANGED <<env_vars, workers, worker_thread, word_translations, sigq, observed, aux_vars>>

\* The number of the next WorkerThread object
NextWorker == 1 + Cardinality({i \in WorkerIds : workers[i].pc # "none"})

\* Line 1457 drops the reference to the previous WorkerThread object: an
\* object whose thread has finished is gone, one whose thread still runs
\* goes on running
Released(i) ==
    IF i = worker_thread /\ workers[i].pc = "finished"
    THEN [NoWorker EXCEPT !.pc = "gone"]
    ELSE workers[i]

\* start_monitoring handing the watcher state of the previous worker
\* (content, time and count of its last trigger) to the new one
StartMonitoringKeepsState(cfgs, libs) ==
    /\ gui = "idle"
    /\ IF worker_thread # 0 /\ isRunning(worker_thread)
       THEN /\ last_log' = "warning:already_running"
            /\ UNCHANGED <<workers, worker_thread, observed, aux_vars>>
       ELSE /\ NextWorker \in WorkerIds
            /\ \E cfg \in cfgs :
                 workers' = [i \in WorkerIds |->
                    IF i = NextWorker
                    THEN LET old == IF worker_thread # 0 THEN workers[worker_thread]
                                    ELSE NoWorker
                         IN  [set_parameters(NewWorker(libs), cfg, libs) EXCEPT
                                 !.pc = "started",
                                 !.last_content = old.last_content,
                                 !.last_process_time = old.last_process_time,
                                 !.processed_count = old.processed_count]
                    ELSE Released(i)]
            /\ worker_thread' = NextWorker
            /\ last_log' = "success:started"
            /\ observed' = << >>
    /\ UNCHANGED <<env_vars, gui, word_history, word_translations, file, last_save,
                   sigq, ref_history, aux_vars>>

\* MainWindow.start_monitoring; cfgs: the parameters the form can hold,
\* libs: the libraries installed
StartMonitoring(cfgs, libs) ==
    /\ gui = "idle"
    /\ IF worker_thread # 0 /\ isRunning(worker_thread)
       THEN /\ last_log' = "warning:already_running"
            /\ UNCHANGED <<workers, worker_thread, observed, aux_vars>>
       ELSE /\ NextWorker \in WorkerIds
            /\ \E cfg \in cfgs :
                 workers' = [i \in WorkerIds |->
                    IF i = NextWorker
                    THEN [set_parameters(NewWorker(libs), cfg, libs) EXCEPT !.pc = "started"]
                    ELSE Released(i)]
            /\ worker_thread' = NextWorker
            /\ last_log' = "success:started"
            /\ observed' = << >>
    /\ UNCHANGED <<env_vars, gui, word_history, word_translations, file, last_save,
                   sigq, ref_history, aux_vars>>

\* MainWindow.stop_monitoring, lines 1490-1493: stop(), then wait() blocks
\* the GUI thread
StopMonitoring ==
    /\ gui = "idle"
    /\ IF worker_thread # 0 /\ isRunning(worker_thread)
       THEN /\ workers' = [workers EXCEPT ![worker_thread] = stop(@)]
            /\ gui' = "waiting"
       ELSE UNCHANGED <<workers, gui>>
    /\ UNCHANGED <<env_vars, worker_thread, store_vars, sigq, ref_history, observed, aux_vars>>

\* MainWindow.stop_monitoring, lines 1493-1494: wait() returns once run() has
\* returned
WaitReturns ==
    /\ gui = "waiting"
    /\ ~isRunning(worker_thread)
    /\ gui' = "idle"
    /\ last_log' = "info:stopped"
    /\ UNCHANGED <<env_vars, workers, worker_thread, word_history,
                   word_translations, file, last_save, sigq, ref_history, observed, aux_vars>>

\* MainWindow.update_word_analysis (saves: what its saves can meet), run by the GUI thread's event loop for
\* the oldest queued word_analysis_signal; the event loop also runs inside a
\* modal dialog
UpdateWordAnalysis(saves) ==
    /\ gui \in {"idle", "clear_dialog", "export_dialog"}
    /\ sigq # << >>
    /\ LET pairs == Head(sigq) IN
       /\ word_translations' = pairs
       /\ \E st \in add_all(CurrentStore, pairs, saves) : SetStore(st)
       /\ ref_history' = RefAddAll(ref_history, pairs)
    /\ sigq' = Tail(sigq)
    /\ UNCHANGED <<env_vars, workers, worker_thread, gui, observed, aux_vars>>

\* MainWindow.clear_word_history, lines 1433-1442: up to the question dialog
ClearWordHistory ==
    /\ gui = "idle"
    /\ IF word_history = EmptyDict
       THEN /\ last_log' = "warning:already_empty"
            /\ gui' = gui
       ELSE /\ gui' = "clear_dialog"
            /\ last_log' = last_log
    /\ UNCHANGED <<env_vars, workers, worker_thread, word_history,
                   word_translations, file, last_save, sigq, ref_history, observed, aux_vars>>

\* ClearAnswer with a confirmed clear that empties the pairs of the most
\* recent cycle and the log as well
ClearAnswerWipesAll(saves) ==
    /\ gui = "clear_dialog"
    /\ \E yes \in BOOLEAN :
         IF yes
         THEN /\ \E st \in {save_word_history([CurrentStore EXCEPT
                                   !.word_history = EmptyDict], out) : out \in saves} :
                    SetStore([st EXCEPT !.last_log = "success:cleared"])
              /\ ref_history' = {}
              /\ word_translations' = << >>
              /\ log_messages' = << >>
         ELSE UNCHANGED <<word_history, file, last_log, last_save, ref_history,
                          word_translations, log_messages>>
    /\ gui' = "idle"
    /\ UNCHANGED <<env_vars, workers, worker_thread, sigq, observed, logq, export,
                   export_file, call>>

\* MainWindow.clear_word_history, lines 1444-1448: the dialog's answer
\* (saves: what the save can meet)
ClearAnswer(saves) ==
    /\ gui = "clear_dialog"
    /\ \E yes \in BOOLEAN :
         IF yes
         THEN /\ \E st \in {save_word_history([CurrentStore EXCEPT
                                   !.word_history = EmptyDict], out) : out \in saves} :
                    SetStore([st EXCEPT !.last_log = "success:cleared"])
              /\ ref_history' = {}
         ELSE UNCHANGED <<word_history, file, last_log, last_save, ref_history>>
    /\ gui' = "idle"
    /\ UNCHANGED <<env_vars, workers, worker_thread, word_translations, sigq, observed, aux_vars>>

(***************************************************************************)
(* MainWindow: the log and the exports                                     *)
(***************************************************************************)
\* MainWindow.log_message, run by the event loop for the oldest queued
\* log_signal emission of a per-word translation line
LogMessage ==
    /\ gui \in {"idle", "clear_dialog", "export_dialog"}
    /\ logq # << >>
    /\ log_messages' = Append(log_messages, Head(logq))
    /\ logq' = Tail(logq)
    /\ last_log' = "info:word_translation"
    /\ UNCHANGED <<env_vars, workers, worker_thread, gui, word_history,
                   word_translations, file, last_save, sigq, ref_history, observed,
                   export, export_file, call>>

\* re.search of the per-word pattern in a line: each of the three groups
\* (.+) needs at least one character
PatternMatches(line) == line[1] # << >> /\ line[2] # << >> /\ line[3] # ""

\* MainWindow.extract_words_from_log: the loop over messages, words being
\* the OrderedDict built so far
RECURSIVE extract_words(_, _)
extract_words(messages, words) ==
    IF messages = << >> THEN words
    ELSE LET line == Head(messages)
         IN  extract_words(Tail(messages),
                 IF PatternMatches(line) /\ line[2] \notin DictKeys(words)
                 THEN DictSet(words, line[2], line[3])
                 ELSE words)

\* extract_words_from_log keeping the last line of a normal form
extract_words_keep_last(messages) ==
    extract_words([i \in 1..Len(messages) |-> messages[Len(messages) + 1 - i]], EmptyDict)

\* MainWindow.extract_words_from_log
extract_words_from_log(messages) == extract_words(messages, EmptyDict)

\* The order of Python strings: by code point, a proper prefix first
RECURSIVE KeyLess(_, _)
CodePoint(ch) == CASE ch = "ru_a" -> 1 [] ch = "ru_b" -> 2 [] OTHER -> 0
KeyLess(a, b) ==
    IF b = << >> THEN FALSE
    ELSE IF a = << >> THEN TRUE
    ELSE IF Head(a) # Head(b) THEN CodePoint(Head(a)) < CodePoint(Head(b))
    ELSE KeyLess(Tail(a), Tail(b))

\* sorted(d.items()): the pairs in ascending key order
RECURSIVE Insert(_, _)
Insert(pair, sorted) ==
    IF sorted = << >> THEN <<pair>>
    ELSE IF KeyLess(pair[1], Head(sorted)[1]) THEN <<pair>> \o sorted
    ELSE <<Head(sorted)>> \o Insert(pair, Tail(sorted))

RECURSIVE SortedItems(_)
SortedItems(d) ==
    IF d = << >> THEN << >> ELSE Insert(Head(d), SortedItems(Tail(d)))

\* Outcome of the write of an export: -1, open() fails; n >= 0, the number
\* of parts (the header, then one line per pair) that reach the file before
\* a write fails, the write being complete when n covers them all.  Here
\* open() fails, or the write fails after the header and one line, or
\* nothing fails.
MaxExportLen == 1 + Cardinality(NormalForms)
ExportOutcomes == {-1, 2, MaxExportLen}

\* The with-block of an export (lines 1325-1332, 1366-1373, 1409-1416):
\* open(file_path, "w") truncates, then the header, with the title of the
\* kind of export and the total, and the lines are written; what the file
\* is afterwards
write_export(old, kind, selection, out) ==
    IF out < 0 THEN old
    ELSE IF out >= 1 + Len(selection)
         THEN [exists |-> TRUE, kind |-> kind, total |-> Len(selection),
               lines |-> selection]
         ELSE [exists |-> TRUE,
               kind |-> IF out >= 1 THEN kind ELSE "none",
               total |-> IF out >= 1 THEN Len(selection) ELSE -1,
               lines |-> IF out >= 2 THEN SubSeq(selection, 1, out - 1) ELSE << >>]

\* What an export writes, by its kind, when its dialog has returned
ExportSelection ==
    CASE export.kind = "recent" -> word_translations
      [] export.kind = "all" -> SortedItems(word_history)
      [] OTHER -> SortedItems(export.words)

\* An export up to its save-path dialog: nothing shows the dialog when
\* empty holds
ExportBegin(kind, words, empty) ==
    /\ gui = "idle"
    /\ IF empty
       THEN /\ last_log' = "warning:nothing_to_export"
            /\ UNCHANGED <<gui, export>>
       ELSE /\ gui' = "export_dialog"
            /\ export' = [kind |-> kind, words |-> words]
            /\ last_log' = last_log
    /\ UNCHANGED <<env_vars, workers, worker_thread, word_history,
                   word_translations, file, last_save, sigq, ref_history, observed,
                   logq, log_messages, export_file, call>>

\* MainWindow.export_recent_words, lines 1308-1317
export_recent_words == ExportBegin("recent", << >>, word_translations = << >>)

\* MainWindow.export_all_words, lines 1349-1358
export_all_words == ExportBegin("all", << >>, word_history = EmptyDict)

\* MainWindow.export_log_words, lines 1390-1401
export_log_words ==
    LET words == extract_words_from_log(log_messages)
    IN  ExportBegin("log", words, words = EmptyDict)

\* The rest of an export, from the dialog's return: the user cancels, or
\* the file is written (outs: what the write can meet)
ExportAnswer(outs) ==
    /\ gui = "export_dialog"
    /\ \E chosen \in BOOLEAN :
         IF chosen
         THEN \E out \in outs :
                /\ export_file' = write_export(export_file, export.kind, ExportSelection, out)
                /\ last_log' = IF out >= 1 + Len(ExportSelection)
                               THEN "info:exported" ELSE "error:export_failed"
         ELSE /\ last_log' = "warning:export_cancelled"
              /\ export_file' = export_file
    /\ gui' = "idle"
    /\ export' = NoExport
    /\ UNCHANGED <<env_vars, workers, worker_thread, word_history,
                   word_translations, file, last_save, sigq, ref_history, observed,
                   logq, log_messages, call>>

(***************************************************************************)
(* The environment                                                         *)
(***************************************************************************)
\* The user copies a text, one of texts
Copy(texts) ==
    /\ copies < MaxCopies
    /\ \E text \in texts \ {clipboard} : clipboard' = text
    /\ copies' = copies + 1
    /\ UNCHANGED <<now, workers, worker_thread, gui, store_vars, sigq, ref_history,
                   observed, aux_vars>>

\* The user copies a text, the one on the clipboard already or another,
\* once the worker has read aloud every copy made before
CopyWhenRead(texts) ==
    /\ copies < MaxCopies
    /\ worker_thread # 0
    /\ workers[worker_thread].pc \in {"top", "sleeping"}
    /\ workers[worker_thread].processed_count = copies
    /\ \E text \in texts : clipboard' = text
    /\ copies' = copies + 1
    /\ UNCHANGED <<now, workers, worker_thread, gui, store_vars, sigq, ref_history,
                   observed, aux_vars>>

\* Time passes
Tick ==
    /\ now < MaxTime
    /\ now' = now + 1
    /\ UNCHANGED <<clipboard, copies, workers, worker_thread, gui, store_vars, sigq,
                   ref_history, observed, aux_vars>>

(***************************************************************************)
(* Specifications                                                          *)
(***************************************************************************)
\* The program at its start, the history file holding one of files
InitWith(files) ==
    /\ clipboard = EmptyText
    /\ now = Epoch
    /\ copies = 0
    /\ workers = [i \in WorkerIds |-> NoWorker]
    /\ worker_thread = 0
    /\ gui = "startup"
    /\ word_history = EmptyDict
    /\ word_translations = << >>
    /\ file \in files
    /\ last_log = ""
    /\ last_save = ""
    /\ sigq = << >>
    /\ ref_history = {}
    /\ observed = << >>
    /\ logq = << >>
    /\ log_messages = << >>
    /\ export = NoExport
    /\ export_file = NoExportFile
    /\ call = NoCall

\* The steps of the worker threads
WorkerStep(answers) ==
    \E i \in WorkerIds :
        \/ RunBegin(i)
        \/ LoopExit(i)
        \/ \E paste \in {"ok", "raise"} : Poll(i, paste) /\ UNCHANGED observed
        \/ Process(i, answers)
        \/ Sleep(i)

\* The watcher: every cooldown, the clock running, no translator library (so
\* that no cycle has a word to add to the history), the disk never failing
WatcherConfigs ==
    [process_cooldown : Cooldowns, stress_enabled : {TRUE},
     translation_enabled : {TRUE}, morphology_enabled : {TRUE}]
WatcherLibs == [AllLibs EXCEPT !.deep_translator = FALSE]

Init == InitWith({NoFile})

Next ==
    \/ LoadWordHistory
    \/ StartMonitoring(WatcherConfigs, WatcherLibs)
    \/ StopMonitoring
    \/ WaitReturns
    \/ UpdateWordAnalysis(SaveSucceeds)
    \/ Copy(ClipTexts)
    \/ Tick
    \/ WorkerStep(OneAnswer)

Spec == Init /\ [][Next]_vars

\* The worker thread is scheduled, its provider calls return, and the GUI
\* thread blocked in wait() resumes when the wait can return
FairSpec == Spec /\ WF_vars(WorkerStep(OneAnswer)) /\ WF_vars(WaitReturns)

\* The watcher without cooldown, the contents its polls read being recorded
\* (the first MaxObs polls of a worker)
DebounceConfigs ==
    [process_cooldown : {0}, stress_enabled : {TRUE},
     translation_enabled : {TRUE}, morphology_enabled : {TRUE}]

ObservedPoll(i) ==
    /\ Len(observed) < MaxObs
    /\ \E paste \in {"ok", "raise"} :
         /\ Poll(i, paste)
         /\ observed' =
               IF paste = "ok" /\ ~workers[i].is_processing
               THEN Append(observed, [content |-> clipboard,
                                      fired |-> workers'[i].pc = "processing"])
               ELSE observed

DebounceNext ==
    \/ LoadWordHistory
    \/ StartMonitoring(DebounceConfigs, WatcherLibs)
    \/ UpdateWordAnalysis(SaveSucceeds)
    \/ Copy(ClipTexts)
    \/ Tick
    \/ \E i \in WorkerIds :
        \/ RunBegin(i)
        \/ ObservedPoll(i)
        \/ Process(i, OneAnswer)
        \/ Sleep(i)

DebounceSpec == Init /\ [][DebounceNext]_vars

\* The watcher whose user replaces the clipboard content again and again
\* (a Russian word, a Latin word, nothing), with every cooldown and the
\* clock running, the contents its polls read being recorded
ReturnTexts == {EmptyText, TextA, TextZ}

CopyAgain(texts) ==
    /\ \E text \in texts \ {clipboard} : clipboard' = text
    /\ UNCHANGED <<now, copies, workers, worker_thread, gui, store_vars, sigq,
                   ref_history, observed, aux_vars>>

ReturnNext ==
    \/ LoadWordHistory
    \/ StartMonitoring(WatcherConfigs, WatcherLibs)
    \/ UpdateWordAnalysis(SaveSucceeds)
    \/ CopyAgain(ReturnTexts)
    \/ Tick
    \/ \E i \in WorkerIds :
        \/ RunBegin(i)
        \/ ObservedPoll(i)
        \/ Process(i, OneAnswer)
        \/ Sleep(i)

ReturnSpec == Init /\ [][ReturnNext]_vars

\* One monitoring session after another with every provider there: no
\* cooldown, the clock standing still, the disk never failing, the user
\* copying a Russian word or a Latin one
CycleTexts == {TextA, TextZ}

CycleConfigs ==
    [process_cooldown : {0}, stress_enabled : {TRUE},
     translation_enabled : {TRUE}, morphology_enabled : {TRUE}]

CycleNext ==
    \/ LoadWordHistory
    \/ StartMonitoring(CycleConfigs, AllLibs)
    \/ StopMonitoring
    \/ WaitReturns
    \/ UpdateWordAnalysis(SaveSucceeds)
    \/ Copy(CycleTexts)
    \/ WorkerStep(OneAnswer)

CycleSpec == Init /\ [][CycleNext]_vars

\* One monitoring session without cooldown, the user copying Russian texts
\* one after the other, each after the one before has been read
RepeatTexts == {TextA, TextB}

\* The steps of a worker that is not asked to stop
RunningStep ==
    \E i \in WorkerIds :
        \/ RunBegin(i)
        \/ \E paste \in {"ok", "raise"} : Poll(i, paste) /\ UNCHANGED observed
        \/ Process(i, OneAnswer)
        \/ Sleep(i)

RepeatNext ==
    \/ LoadWordHistory
    \/ StartMonitoring(DebounceConfigs, WatcherLibs)
    \/ UpdateWordAnalysis(SaveSucceeds)
    \/ CopyWhenRead(RepeatTexts)
    \/ RunningStep

\* The worker thread is scheduled and its provider calls return
RepeatSpec == Init /\ [][RepeatNext]_vars /\ WF_vars(RunningStep)

\* The watcher with every cooldown and the clock running, the user copying
\* a Russian word or a Latin one, no stop being asked
PendingTexts == {TextA, TextZ}

PendingNext ==
    \/ LoadWordHistory
    \/ StartMonitoring(WatcherConfigs, WatcherLibs)
    \/ UpdateWordAnalysis(SaveSucceeds)
    \/ Copy(PendingTexts)
    \/ Tick
    \/ RunningStep

\* The worker thread is scheduled, its provider calls return, and time
\* passes
PendingSpec == Init /\ [][PendingNext]_vars /\ WF_vars(RunningStep) /\ WF_vars(Tick)

\* What the history file can hold when the program starts
InitFiles ==
    {NoFile,
     [exists |-> TRUE, bytes |-> << >>],
     [exists |-> TRUE, bytes |-> Dump(EmptyDict)],
     [exists |-> TRUE, bytes |-> <<ProtoTok, Tok("ITEM", <<"ru_a">>, "t1")>>],
     [exists |-> TRUE, bytes |-> Dump(<< <<(<<"ru_a">>), "t1">> >>)]}

\* Line 351 of a cycle of the running worker, every provider there: the
\* cycle's pairs are queued for the GUI thread
StoreWorker ==
    set_parameters(NewWorker(AllLibs),
                   [process_cooldown |-> 0, stress_enabled |-> TRUE,
                    translation_enabled |-> TRUE, morphology_enabled |-> TRUE],
                   AllLibs)

\* The emissions of the cycles of text, the translator answering from answers
MessagesOf(text, answers) ==
    {text_to_speech_russian(StoreWorker, text, o).translated_words :
        o \in EnrichOutcomes(StoreWorker, text, answers)}

\* Every translator answer for the one word of TextA, one answer or a
\* failure for each of the two words of TextB
StoreMessages == MessagesOf(TextA, TransVals) \cup MessagesOf(TextB, OneAnswer)

EmitWordAnalysis ==
    /\ gui # "startup"
    /\ Len(sigq) < MaxQueue
    /\ \E pairs \in StoreMessages : sigq' = Append(sigq, pairs)
    /\ UNCHANGED <<env_vars, workers, worker_thread, gui, store_vars, ref_history,
                   observed, aux_vars>>

\* The history store, the worker being its environment: every translator
\* answer, every outcome of a save
StoreNext ==
    \/ LoadWordHistory
    \/ EmitWordAnalysis
    \/ UpdateWordAnalysis(SaveOutcomes)
    \/ ClearWordHistory
    \/ ClearAnswer(SaveOutcomes)

StoreSpec == InitWith(InitFiles) /\ [][StoreNext]_vars

\* The history store started without a file, a save failing at open() or
\* succeeding; the event loop of the GUI thread runs: a queued emission is
\* delivered
DeliverySaves == {-1, MaxFileLen}

DeliveryNext ==
    \/ LoadWordHistory
    \/ EmitWordAnalysis
    \/ UpdateWordAnalysis(DeliverySaves)
    \/ ClearWordHistory
    \/ ClearAnswer(DeliverySaves)

FairStoreSpec ==
    Init /\ [][DeliveryNext]_vars /\ WF_vars(UpdateWordAnalysis(DeliverySaves))

\* What a cycle of the running worker queues for the GUI thread, lines
\* 338-351: the log lines of its words, then its pairs
EmissionsOf(text, answers) ==
    {LET tts == text_to_speech_russian(StoreWorker, text, o)
     IN  [pairs |-> tts.translated_words,
          lines |-> word_log_lines(StoreWorker, tts.word_analysis, o.words)] :
        o \in EnrichOutcomes(StoreWorker, text, answers)}

\* The cycles of TextA, with two answers or a failure for its one word,
\* and the cycles of TextB whose per-word calls all return; the analyzer
\* failing, a cycle has no pair
ExportEmissions ==
    EmissionsOf(TextA, {"t1", "t2"})
        \cup {em \in EmissionsOf(TextB, OneAnswer) : Len(em.lines) = Len(em.pairs)}

\* The worker logs at most MaxLog per-word lines
EmitCycle ==
    /\ gui # "startup"
    /\ Len(sigq) < MaxQueue
    /\ \E em \in ExportEmissions :
         /\ Len(log_messages) + Len(logq) + Len(em.lines) <= MaxLog
         /\ sigq' = Append(sigq, em.pairs)
         /\ logq' = logq \o em.lines
    /\ UNCHANGED <<env_vars, workers, worker_thread, gui, store_vars, ref_history,
                   observed, log_messages, export, export_file, call>>

\* The GUI thread with its log, its exports and the clearing of the
\* history, the worker being its environment; the saves of a delivery
\* succeed, the save of a clear meets every outcome
ExportNext ==
    \/ LoadWordHistory
    \/ EmitCycle
    \/ LogMessage
    \/ UpdateWordAnalysis(SaveSucceeds)
    \/ ClearWordHistory
    \/ ClearAnswer(SaveOutcomes)
    \/ export_recent_words
    \/ export_all_words
    \/ export_log_words
    \/ ExportAnswer(ExportOutcomes)

ExportSpec == Init /\ [][ExportNext]_vars

\* The parameters of the form, the cooldown left aside
EnrichConfigs ==
    [process_cooldown : {0}, stress_enabled : BOOLEAN,
     translation_enabled : BOOLEAN, morphology_enabled : BOOLEAN]

\* The texts a cycle hands to text_to_speech_russian (line 438)
EnrichTexts == {text \in ClipTexts : is_russian_text(text)}

\* Lines 438-458 of one cycle of a worker as start_monitoring makes it
\* (lines 1457-1467), on its own: the call of text_to_speech_russian with
\* what the providers do and what it returns, then what run does with the
\* success flag.  The call is recorded; what it does depends on nothing
\* but its inputs, so one call is made.
Enrich ==
    /\ call = NoCall
    /\ \E libs \in Libs, cfg \in EnrichConfigs, text \in EnrichTexts, play \in PlayOutcomes :
         LET w == [set_parameters(NewWorker(libs), cfg, libs) EXCEPT !.pc = "processing"]
         IN  \E o \in EnrichOutcomes(w, text, TransVals) :
               LET ret == text_to_speech_russian(w, text, o)
               IN  /\ call' = [fn |-> "text_to_speech_russian", w |-> w, text |-> text,
                               o |-> o, ret |-> ret,
                               cycle |-> cycle_end(w, ret.success,
                                                   [err |-> "none", o |-> o, play |-> play]).cycle]
                   /\ UNCHANGED <<env_vars, workers, worker_thread, gui, store_vars, sigq,
                                  ref_history, observed, logq, log_messages, export,
                                  export_file>>

EnrichSpec == Init /\ [][Enrich]_vars

\* The texts of at most MaxLen characters
TextsUpTo(n) == UNION {[1..k -> Chars] : k \in 0..n}

\* Line 438 of a cycle, on its own: is_russian_text applied to the content
\* of the clipboard, the call being recorded
Detect ==
    /\ call = NoCall
    /\ \E text \in TextsUpTo(MaxLen) :
         call' = [fn |-> "is_russian_text", text |-> text, ret |-> is_russian_text(text)]
    /\ UNCHANGED <<env_vars, workers, worker_thread, gui, store_vars, sigq,
                   ref_history, observed, logq, log_messages, export, export_file>>

LangSpec == Init /\ [][Detect]_vars

\* WorkerThread.play_audio, play by play.  outs[i]: what the i-th
\* subprocess.run meets ("ok": exit status 0, "fail": another exit status,
\* "raise": the call raises).  play_loop is the for loop from its i-th
\* iteration on (lines 384-400): the plays made, the sleeps between them,
\* whether a call raised (which leaves the loop for the handler at line 408).
RECURSIVE play_loop(_, _, _)
play_loop(play_times, outs, i) ==
    IF i > play_times THEN [plays |-> 0, sleeps |-> 0, raised |-> FALSE]
    ELSE IF outs[i] = "raise" THEN [plays |-> 1, sleeps |-> 0, raised |-> TRUE]
    ELSE LET rest == play_loop(play_times, outs, i + 1)
         IN  [plays |-> 1 + rest.plays,
              sleeps |-> (IF i < play_times THEN 1 ELSE 0) + rest.sleeps,
              raised |-> rest.raised]

\* After the loop (lines 402-407) the exit status tested is the one result
\* holds, that of the last play; level: the level of the closing message.
\* out: the outcome of the whole call as play_audio(out) takes it.
play_audio_times(play_times, outs) ==
    LET l == play_loop(play_times, outs, 1)
        out == IF l.raised THEN "raise"
               ELSE IF outs[play_times] = "ok" THEN "ok" ELSE "fail"
    IN  [plays |-> l.plays, sleeps |-> l.sleeps, out |-> out,
         success |-> play_audio(out),
         level |-> IF play_audio(out) THEN "info" ELSE "error"]

\* The play counts of the form (times_spin, from 1), up to MaxPlays
MaxPlays == 4
PlayTimes == 1..MaxPlays

\* Lines 449-455 of a cycle, on their own: play_audio on a synthesized
\* file, then what run does with its result (run_level: "error" when run
\* emits its error message at line 453; cycle: how the cycle ends).  The
\* call is recorded; it depends on nothing but its inputs, so one call is
\* made.
Playback ==
    /\ call = NoCall
    /\ \E n \in PlayTimes :
         \E outs \in [1..n -> PlayOutcomes] :
            LET ret == play_audio_times(n, outs)
                w == [NewWorker(AllLibs) EXCEPT !.pc = "processing",
                                                !.is_processing = TRUE]
            IN  call' = [fn |-> "play_audio", play_times |-> n, outs |-> outs,
                         ret |-> ret,
                         run_level |-> IF ret.success THEN "none" ELSE "error",
                         after |-> cycle_end(w, TRUE,
                                      [err |-> "none", o |-> NoCalls, play |-> ret.out])]
    /\ UNCHANGED <<env_vars, workers, worker_thread, gui, store_vars, sigq,
                   ref_history, observed, logq, log_messages, export, export_file>>

PlaySpec == Init /\ [][Playback]_vars

(***************************************************************************)
(* The watcher's claims                                                    *)
(***************************************************************************)
\* A step in which worker i completes a poll tick: it reads the clipboard
\* at the top of the loop and goes on to a cycle or to the sleep
PollTick(i) ==
    /\ workers[i].pc = "top"
    /\ workers'[i].pc \in {"processing", "sleeping"}

\* C1: on every poll tick a cycle is triggered if and only if the clipboard
\* content is non-empty after trimming, differs from last_content, and the
\* time since last_process_time is at least the cooldown; a tick that does
\* not trigger leaves last_content, last_process_time and the processed
\* counter as they were.
C1_TriggerIffAllThree ==
    [][\A i \in WorkerIds : PollTick(i) =>
          LET w == workers[i]
              w2 == workers'[i]
          IN  /\ (w2.pc = "processing") <=>
                     /\ Strip(clipboard) # << >>
                     /\ clipboard # w.last_content
                     /\ now - w.last_process_time >= w.process_cooldown
              /\ w2.pc = "sleeping" =>
                     /\ w2.last_content = w.last_content
                     /\ w2.last_process_time = w.last_process_time
                     /\ w2.processed_count = w.processed_count]_vars

\* C1 witness: a worker with a cooldown, one cycle behind it, has triggered
\* again on the content and at the time of the present poll
C1_TriggeredAfterCooldown ==
    \E i \in WorkerIds :
        /\ workers[i].pc = "processing"
        /\ workers[i].process_cooldown > 0
        /\ workers[i].cycle # "none"
        /\ workers[i].last_content = clipboard
        /\ workers[i].last_process_time = now

\* The triggers of a sequence of polled contents with cooldown 0: a poll
\* triggers when its content is non-blank and differs from the content
\* accepted last
RECURSIVE RefTriggers(_, _)
RefTriggers(contents, last) ==
    IF contents = << >> THEN << >>
    ELSE LET c == Head(contents)
             fire == Strip(c) # << >> /\ c # last
         IN  <<fire>> \o RefTriggers(Tail(contents), IF fire THEN c ELSE last)

ObservedContents == [k \in 1..Len(observed) |-> observed[k].content]
ObservedFired == [k \in 1..Len(observed) |-> observed[k].fired]

\* C2: with cooldown 0 the polls that trigger are exactly the polls whose
\* non-blank content differs from the content accepted last, whatever
\* happens between the polls; the contents A, A, B give two triggers.
C2_DebounceByContent ==
    ObservedFired = RefTriggers(ObservedContents, EmptyText)

\* C2 witness: the polls of a worker have read A, A, B and triggered twice
C2_ObservedAAB ==
    /\ ObservedContents = <<TextA, TextA, TextB>>
    /\ ObservedFired = <<TRUE, FALSE, TRUE>>

\* The workers whose thread has been started and has not returned from run
Alive == {i \in WorkerIds : workers[i].pc \in {"started", "top", "processing", "sleeping"}}

\* C3: once stop_monitoring has requested the stop of a started worker, the
\* worker exits and the wait of stop_monitoring returns (under FairSpec).
C3_StopLeadsToExit ==
    (gui = "waiting") ~> (gui = "idle" /\ Alive = {})

\* C4: at most one cycle is in flight and at most one worker thread is
\* alive, the one MainWindow.worker_thread refers to.
C4_OneCycleInFlight ==
    /\ Cardinality({i \in WorkerIds : workers[i].pc = "processing"}) <= 1
    /\ Cardinality(Alive) <= 1
    /\ Alive \subseteq {worker_thread}

\* C4 witness: a second worker, created after the first one exited, is in a
\* cycle, and a start_monitoring during its run has been refused
C4_SecondWorkerInCycle ==
    /\ worker_thread > 1
    /\ workers[worker_thread].pc = "processing"
    /\ last_log = "warning:already_running"

\* C5: a cycle ends the loop only by an error outside the providers; every
\* other cycle, whatever its providers did, ends with the busy flag cleared
\* and the loop going on to its next poll.  A worker exits only from the
\* top of the loop (stop request, or clipboard read error) or by such an
\* error, and its status is then 'stopped'.
C5_LoopSurvivesProviders ==
    [][\A i \in WorkerIds :
          LET w == workers[i]
              w2 == workers'[i]
          IN  /\ (w.pc = "processing" /\ w2.pc # "processing") =>
                     IF w2.cycle = "error"
                     THEN w2.pc = "finished"
                     ELSE /\ w2.pc = "sleeping"
                          /\ ~w2.is_processing
                          /\ w2.status = "monitoring"
              /\ (w.pc # "finished" /\ w2.pc = "finished") =>
                     /\ w2.status = "stopped"
                     /\ w.pc = "top" \/ w2.cycle = "error"]_vars

\* C5 witness: after a cycle whose synthesis or playback failed, the worker
\* has polled again and is in its next cycle
C5_NextCycleAfterFailure ==
    \E i \in WorkerIds :
        /\ workers[i].pc = "processing"
        /\ workers[i].cycle \in {"synth_failed", "play_failed"}

\* C6: no worker whose cycle has ended, normally or by an error, has
\* is_processing still true.
C6_BusyClearedAlways ==
    \A i \in WorkerIds :
        workers[i].pc \in {"top", "sleeping", "finished"} => ~workers[i].is_processing

(***************************************************************************)
(* The store's claims                                                      *)
(***************************************************************************)
\* A step in which the GUI thread handles the oldest queued emission
Delivery == sigq # << >> /\ Len(sigq') = Len(sigq) - 1

\* A step in which the user confirms the clear dialog
ClearConfirmed == gui = "clear_dialog" /\ gui' = "idle" /\ ref_history' = {}

\* No pair of the emission is an effective add
NoEffect(pairs) ==
    \A k \in 1..Len(pairs) :
        pairs[k][1] = << >> \/ pairs[k][2] \in {"", TranslationFailed}

\* The file holding the complete dump of table d
Saved(d) == [exists |-> TRUE, bytes |-> Dump(d)]

\* C11: the load at startup ends with the GUI idle and the file untouched;
\* without a file the table is empty, a file that is read and deserializes
\* gives the table its content, and a file that fails to be read or to
\* deserialize leaves the table empty, with a warning.
C11_LoadNeverFatal ==
    [][(gui = "startup" /\ gui' # "startup") =>
          /\ gui' = "idle"
          /\ file' = file
          /\ ~file.exists =>
                (word_history' = EmptyDict /\ last_log' = "info:no_history_file")
          /\ (file.exists /\ ~Loadable(file.bytes)) =>
                (word_history' = EmptyDict /\ last_log' = "warning:load_failed")
          /\ (file.exists /\ Loadable(file.bytes)) =>
                \/ (word_history' = Load(file.bytes) /\ last_log' = "success:loaded")
                \/ (word_history' = EmptyDict /\ last_log' = "warning:load_failed")]_vars

\* C11 witness: the program has started on a truncated file that holds an
\* entry, and its table is empty
C11_StartedOnTruncatedFile ==
    /\ gui = "idle"
    /\ last_log = "warning:load_failed"
    /\ file.exists
    /\ Len(file.bytes) = 2
    /\ ~Loadable(file.bytes)
    /\ word_history = EmptyDict

\* C7: the table equals the reference map of the effective adds and the
\* confirmed clears, one entry per normal form; an emission without an
\* effective add changes neither table nor file; no key disappears except
\* by a confirmed clear.
C7_TableIsReferenceMap ==
    /\ [](/\ AsMap(word_history) = ref_history
          /\ Cardinality(DictKeys(word_history)) = Len(word_history))
    /\ [][/\ (Delivery /\ NoEffect(Head(sigq))) =>
                 (word_history' = word_history /\ file' = file)
          /\ \/ DictKeys(word_history) \subseteq DictKeys(word_history')
             \/ ClearConfirmed]_vars

\* C7 witness: the emission handled last carried the failure sentinel for
\* a word the table holds, next to an effective add
C7_SentinelLeftEntry ==
    /\ Len(word_history) = 2
    /\ \E k \in 1..Len(word_translations) :
          /\ word_translations[k][2] = TranslationFailed
          /\ word_translations[k][1] \in DictKeys(word_history)
    /\ \E k \in 1..Len(word_translations) :
          word_translations[k] \in AsMap(word_history)

\* C8: whenever the latest save succeeded, loading the file gives the
\* table in memory: no mutation is left unsaved.
C8_WriteThroughRoundTrip ==
    last_save = "info" =>
        /\ file.exists
        /\ Loadable(file.bytes)
        /\ Load(file.bytes) = word_history

\* C8 witness: two entries in memory, saved
C8_TwoEntriesSaved ==
    /\ last_save = "info"
    /\ Len(word_history) = 2
    /\ file = Saved(word_history)

\* C9: every step leaves the file as it was or holding the complete dump
\* of the table in memory.
C9_AtomicSave ==
    [][\/ file' = file
       \/ /\ file'.exists
          /\ Loadable(file'.bytes)
          /\ Load(file'.bytes) = word_history']_vars

\* C10: a failed save does not stop the handler (every add of the emission
\* is applied, the clear is logged), the mutation stays in memory, a
\* warning is the save's message whenever the file is left differing from a
\* changed table, and the first successful save after a failed one leaves
\* the file holding the whole table.
C10_FailedSaveKeepsMutation ==
    [][/\ Delivery =>
             AsMap(word_history') = RefAddAll(AsMap(word_history), Head(sigq))
       /\ ClearConfirmed =>
             (word_history' = EmptyDict /\ last_log' = "success:cleared")
       /\ ((Delivery \/ ClearConfirmed)
              /\ word_history' # word_history
              /\ file' # Saved(word_history')) => last_save' = "warning"
       /\ (last_save = "warning" /\ last_save' = "info") =>
             file' = Saved(word_history')]_vars

\* C10 witness: after a failed save the table holds entries the file does
\* not give back
C10_MemoryAheadOfFile ==
    /\ last_save = "warning"
    /\ word_history # EmptyDict
    /\ \/ ~file.exists
       \/ ~Loadable(file.bytes)
       \/ Load(file.bytes) # word_history

(***************************************************************************)
(* The claims on the clearing of the history, the log and the exports      *)
(***************************************************************************)
\* A clear of an empty table: the warning is logged, nothing is delivered
\* or queued in the step
ClearOnEmpty ==
    /\ gui = "idle" /\ gui' = "idle"
    /\ word_history = EmptyDict
    /\ last_log' = "warning:already_empty"
    /\ sigq' = sigq /\ logq' = logq

\* A declined confirmation
ClearDeclined == gui = "clear_dialog" /\ gui' = "idle" /\ ref_history' # {}

\* C12 as stated: a confirmed clear empties the table, rewrites the file as
\* the empty table and leaves the pairs of the most recent cycle and the
\* log (its per-word lines and its last message) unchanged; a clear of an
\* empty table and a declined confirmation change nothing.
C12_ClearAsStated ==
    [][/\ ClearConfirmed =>
            /\ word_history' = EmptyDict
            /\ file' = Saved(EmptyDict)
            /\ word_translations' = word_translations
            /\ log_messages' = log_messages
            /\ last_log' = last_log
       /\ (ClearOnEmpty \/ ClearDeclined) =>
            UNCHANGED <<word_history, file, word_translations, log_messages, last_log>>]_vars

\* C12: a confirmed clear empties the table, leaves the pairs of the most
\* recent cycle and every per-word line of the log unchanged and logs its
\* own message; the file is the empty table when the save completes, is
\* untouched when the file cannot be opened, and is a proper prefix of the
\* empty table's dump otherwise.  A clear of an empty table changes
\* nothing but the log, which gains a warning; a declined confirmation
\* changes nothing; neither writes the file.
C12_ClearKeepsRecentAndLog ==
    [][/\ ClearConfirmed =>
            /\ word_history' = EmptyDict
            /\ word_translations' = word_translations
            /\ log_messages' = log_messages
            /\ last_log' = "success:cleared"
            /\ last_save' = "info" => file' = Saved(EmptyDict)
            /\ last_save' = "warning" =>
                  \/ file' = file
                  \/ /\ file'.exists
                     /\ Len(file'.bytes) < Len(Dump(EmptyDict))
                     /\ file'.bytes = SubSeq(Dump(EmptyDict), 1, Len(file'.bytes))
       /\ ClearOnEmpty =>
            UNCHANGED <<word_history, file, word_translations, log_messages>>
       /\ ClearDeclined =>
            UNCHANGED <<word_history, file, word_translations, log_messages, last_log>>]_vars

\* C12 witness: the table has been cleared and the file rewritten as the
\* empty table, the pairs of the most recent cycle and the per-word lines
\* of the log being there still
C12_ClearedWithRecentAndLog ==
    /\ gui = "idle"
    /\ last_log = "success:cleared"
    /\ word_history = EmptyDict
    /\ file = Saved(EmptyDict)
    /\ Len(word_translations) = 2
    /\ log_messages # << >>

\* The step of ExportAnswer in which the export of the given kind has
\* written its file completely
Exported(kind) ==
    /\ gui = "export_dialog" /\ gui' = "idle"
    /\ export.kind = kind
    /\ last_log' = "info:exported"

\* C18 as stated: whatever is delivered while the export runs, a file that
\* export_recent_words has written holds at least one pair.
C18_RecentExportNeverEmpty ==
    [][Exported("recent") =>
          (export_file'.total >= 1 /\ export_file'.lines # << >>)]_vars

\* The pairs of a sequence of pairs
PairSet(pairs) == {pairs[i] : i \in 1..Len(pairs)}

\* The pairs are in strictly ascending order of their keys
Ascending(pairs) ==
    \A i, j \in 1..Len(pairs) : i < j => KeyLess(pairs[i][1], pairs[j][1])

\* The pairs <<normal form, translation>> of the per-word lines of a log,
\* the first line of each normal form standing
FirstLines(messages) ==
    {<<messages[i][2], messages[i][3]>> :
        i \in {k \in 1..Len(messages) :
                 /\ messages[k][3] # ""
                 /\ \A j \in 1..(k - 1) :
                       messages[j][3] = "" \/ messages[j][2] # messages[k][2]}}

\* The step in which export_log_words has extracted the words of the log
\* and shows its dialog
LogExportBegun == gui = "idle" /\ gui' = "export_dialog" /\ export'.kind = "log"

\* C19: an export that succeeds writes a file whose header total is the
\* number of its lines, one line per selected entry: the pairs of the most
\* recent cycle in their order for the recent export; the entries of the
\* history in ascending order of their keys for the export of all words;
\* for the export from the log, in ascending order of their keys, the
\* pairs of the first per-word line of each normal form of the log as it
\* was when the export was requested.
C19_ExportWritesSelection ==
    [][/\ (gui = "export_dialog" /\ gui' = "idle" /\ last_log' = "info:exported") =>
            /\ export_file'.exists
            /\ export_file'.kind = export.kind
            /\ export_file'.total = Len(export_file'.lines)
       /\ Exported("recent") => export_file'.lines = word_translations
       /\ Exported("all") =>
            /\ PairSet(export_file'.lines) = AsMap(word_history)
            /\ Len(export_file'.lines) = Len(word_history)
            /\ Ascending(export_file'.lines)
       /\ Exported("log") =>
            /\ PairSet(export_file'.lines) = PairSet(export.words)
            /\ Len(export_file'.lines) = Len(export.words)
            /\ Ascending(export_file'.lines)
       /\ LogExportBegun =>
            /\ PairSet(export'.words) = FirstLines(log_messages)
            /\ Len(export'.words) = Cardinality(FirstLines(log_messages))]_vars

\* C19 witness: the log holds two lines of one normal form with different
\* translations, and the file of the export from the log holds one line,
\* with the translation of the first
C19_LogExportKeptFirst ==
    /\ last_log = "info:exported"
    /\ Len(log_messages) = 2
    /\ log_messages[1][2] = log_messages[2][2]
    /\ log_messages[1][3] # log_messages[2][3]
    /\ export_file = [exists |-> TRUE, kind |-> "log", total |-> 1,
                      lines |-> << <<log_messages[1][2], log_messages[1][3]>> >>]

\* C20 as stated: an export leaves either a complete file, reported as
\* exported, or no file: the file at the chosen path is never left with a
\* part of the export.
C20_ExportAllOrNothing ==
    [][(gui = "export_dialog" /\ gui' = "idle") =>
          \/ export_file' = export_file
          \/ /\ last_log' = "info:exported"
             /\ export_file'.exists
             /\ export_file'.total = Len(export_file'.lines)]_vars

\* C21 as stated: while a clear or an export waits in its dialog, no add
\* and no save of a delivery take place: the table and its file stay as
\* the emptiness test of the clear or export has seen them, until the
\* dialog returns.
C21_DialogSeesOneTable ==
    [][(gui \in {"clear_dialog", "export_dialog"} /\ gui' = gui) =>
          UNCHANGED <<word_history, file>>]_vars

(***************************************************************************)
(* The claims on the enrichment and the synthesis                          *)
(***************************************************************************)
\* A call of text_to_speech_russian has been made
Called == call.fn = "text_to_speech_russian"

C14_NoTranslatorCallWhenDisabled ==
    (Called /\ ~call.w.translation_enabled) =>
        /\ call.o.trans = "none"
        /\ call.o.words = << >>
        /\ call.ret.translated_words = << >>

\* C15: the call emits one pair per analysed word, in the order of the
\* words: the word's normal form with the translator's answer, or with the
\* sentinel when the translator call of that word raised.
C15_OnePairPerWord ==
    (Called /\ call.w.translator) =>
        LET wa == call.ret.word_analysis
            pairs == call.ret.translated_words
        IN  /\ Len(pairs) = Len(wa)
            /\ \A k \in 1..Len(wa) :
                  /\ pairs[k][1] = wa[k].normal_form
                  /\ pairs[k][2] = IF call.o.words[k] = "raise"
                                   THEN TranslationFailed ELSE call.o.words[k]

\* C15 witness: the first word's translation failed and the second word
\* has its translation
C15_FailedThenTranslated ==
    /\ Called
    /\ call.o.words = <<"raise", "t2">>
    /\ call.ret.translated_words =
          << <<(<<"ru_b">>), TranslationFailed>>, <<(<<"ru_a">>), "t2">> >>

LetterLike == Chars \ (WhiteSpace \cup Digits \cup NonWord)

\* The letters of the target script
TargetLetters == CyrillicRange \cap LetterLike

\* C17 as stated: is_russian_text is true exactly when the text has a
\* letter-like character and more than half of its letter-like characters
\* are letters of the target script.
C17_MajorityOfLetters ==
    call.fn = "is_russian_text" =>
        LET letters == CountIn(call.text, LetterLike)
            target == CountIn(call.text, TargetLetters)
        IN  call.ret <=> (letters >= 1 /\ 2 * target > letters)

(***************************************************************************)
(* The watcher's claims on repeated content, the cooldown and restarts     *)
(***************************************************************************)
\* C22 as stated: every copy of a Russian text is read aloud, the copy of
\* the content read just before included: once the n-th copy is made, the
\* running worker comes to its n-th cycle on Russian text (under
\* RepeatSpec, where the worker is scheduled).
C22_EveryCopyIsRead ==
    \A n \in 1..MaxCopies :
        (copies = n) ~>
            (Alive = {} \/ \E i \in Alive : workers[i].processed_count >= n)

\* The entries the adds of an emission leave: for each normal form with a
\* translation that is neither empty nor the sentinel, the last of them
Effective(pairs) == RefAddAll({}, pairs)

\* C23: the emission of a cycle is delivered, and once it is, the history
\* holds, for every normal form of the emission with a translation that is
\* neither empty nor the sentinel, the entry with that translation; on
\* every other normal form the history is as it was before the delivery
\* (under FairStoreSpec, where the event loop of the GUI thread runs).
C23_DeliveredWordsInHistory ==
    /\ \A eff \in {Effective(pairs) : pairs \in StoreMessages} \ {{}} :
          (sigq # << >> /\ Effective(Head(sigq)) = eff) ~>
              (eff \subseteq AsMap(word_history))
    /\ [][Delivery =>
            LET eff == Effective(Head(sigq))
                keys == {p[1] : p \in eff}
            IN  /\ eff \subseteq AsMap(word_history')
                /\ {p \in AsMap(word_history') : p[1] \notin keys}
                      = {p \in AsMap(word_history) : p[1] \notin keys}]_vars

\* C23 witness: the emission delivered last had the sentinel for the first
\* word, which keeps the entry of an earlier cycle, and a translation for
\* the second word, which has its entry
C23_SecondWordAddedFirstKept ==
    /\ word_translations = << <<(<<"ru_b">>), TranslationFailed>>, <<(<<"ru_a">>), "t1">> >>
    /\ word_history = << <<(<<"ru_b">>), "t1">>, <<(<<"ru_a">>), "t1">> >>

\* A step in which worker i ends a cycle, or is ended by it
CycleStep(i) == workers[i].pc = "processing" /\ workers'[i].pc # "processing"

\* C24: a trigger on a content that is not Russian records the content and
\* the time of the poll as every trigger does; its cycle emits nothing,
\* counts nothing and ends as skipped, without enrichment, synthesis or
\* playback; afterwards a poll that reads the same content, or that reads
\* any content before the cooldown has elapsed since the trigger, does not
\* trigger.
C24_SkippedContentIsRecorded ==
    [][\A i \in WorkerIds :
          LET w == workers[i]
              w2 == workers'[i]
          IN  /\ (PollTick(i) /\ ~is_russian_text(clipboard)
                     /\ Strip(clipboard) # << >>
                     /\ clipboard # w.last_content
                     /\ now - w.last_process_time >= w.process_cooldown) =>
                    /\ w2.pc = "processing"
                    /\ w2.last_content = clipboard
                    /\ w2.last_process_time = now
              /\ (CycleStep(i) /\ ~is_russian_text(w.last_content)) =>
                    /\ sigq' = sigq
                    /\ w2.processed_count = w.processed_count
                    /\ w2.cycle \in {"skipped", "error"}
                    /\ w2.last_content = w.last_content
                    /\ w2.last_process_time = w.last_process_time
              /\ (PollTick(i) /\ w.cycle = "skipped"
                     /\ (clipboard = w.last_content
                           \/ now - w.last_process_time < w.process_cooldown)) =>
                    /\ ~is_russian_text(w.last_content)
                    /\ w2.pc = "sleeping"]_vars

\* C24 witness: a Latin text has been skipped, a Russian text is on the
\* clipboard, and the worker has polled and sleeps, the cooldown since the
\* skipped trigger not having elapsed
C24_RussianWaitsAfterSkipped ==
    \E i \in WorkerIds :
        /\ workers[i].pc = "sleeping"
        /\ workers[i].cycle = "skipped"
        /\ workers[i].last_content = TextZ
        /\ is_russian_text(clipboard)
        /\ now - workers[i].last_process_time < workers[i].process_cooldown

\* C25: when a worker that has completed a cycle triggers the next one, at
\* least its cooldown has elapsed since the completion of that cycle,
\* however long the cycle lasted.
C25_CooldownAfterCompletion ==
    [][\A i \in WorkerIds :
          (PollTick(i) /\ workers'[i].pc = "processing"
                /\ workers[i].completed_at >= 0) =>
             now - workers[i].completed_at >= workers[i].process_cooldown]_vars

\* C26: when a content X has triggered a cycle, a later poll has read a
\* content other than X (blank, rejected for the cooldown, or accepted) and
\* a still later poll reads X with the cooldown elapsed, that poll triggers
\* a cycle on X again.
C26_ReturnAfterAnyOther ==
    [][\A i \in WorkerIds :
          (/\ PollTick(i)
           /\ i = worker_thread
           /\ now - workers[i].last_process_time >= workers[i].process_cooldown
           /\ \E j, k \in 1..Len(observed) :
                 /\ j < k
                 /\ observed[j].fired
                 /\ observed[j].content = clipboard
                 /\ observed[k].content # clipboard) =>
             workers'[i].pc = "processing"]_vars

\* C27: playback makes play_times plays with a delay between consecutive
\* plays (play_times - 1 delays) when no call raises; when any of the plays
\* fails (an exit status other than 0, or an exception) play_audio reports
\* the failure and an error-level message is emitted; in every case no
\* play is made twice and the worker goes on to its sleep and the next
\* poll, the busy flag cleared.
C27_AnyFailedPlayIsReported ==
    call.fn = "play_audio" =>
        LET n == call.play_times
            ret == call.ret
        IN  /\ (\A k \in 1..n : call.outs[k] # "raise") =>
                   (ret.plays = n /\ ret.sleeps = n - 1)
            /\ ret.plays <= n
            /\ (\E k \in 1..n : call.outs[k] # "ok") =>
                   (~ret.success /\ ret.level = "error" /\ call.run_level = "error")
            /\ call.after.pc = "sleeping"
            /\ ~call.after.is_processing

\* Worker i runs and the clipboard holds a non-blank content other than its
\* last_content, the cooldown ending within the time the clock covers
Pending(i) ==
    /\ i \in Alive
    /\ workers[i].is_running
    /\ Strip(clipboard) # << >>
    /\ clipboard # workers[i].last_content
    /\ workers[i].last_process_time + workers[i].process_cooldown <= MaxTime

\* C28: a non-blank content other than last_content that stays on the
\* clipboard while the worker runs is triggered in the end; a poll that
\* does not trigger leaves last_content as it was.
C28_PendingContentTriggers ==
    /\ \A i \in WorkerIds : \A text \in PendingTexts :
          (Pending(i) /\ clipboard = text) ~>
              \/ workers[i].pc = "processing" /\ workers[i].last_content = text
              \/ clipboard # text
              \/ i \notin Alive
    /\ [][\A i \in WorkerIds :
             (PollTick(i) /\ workers'[i].pc = "sleeping") =>
                 workers'[i].last_content = workers[i].last_content]_vars

\* C28 witness: a worker with a cooldown, a played cycle behind it, has
\* triggered on the Latin word copied second, at a later clock value than
\* the end of that cycle
C28_TriggeredOnceCooldownOver ==
    \E i \in WorkerIds :
        /\ workers[i].pc = "processing"
        /\ workers[i].process_cooldown > 0
        /\ workers[i].cycle = "played"
        /\ workers[i].last_content = TextZ
        /\ clipboard = TextZ
        /\ copies = 2
        /\ workers[i].last_process_time = now
        /\ workers[i].completed_at < now

\* C29: every start_monitoring that starts a worker starts a new one, with
\* last_content empty, last_process_time 0, the processed count 0 and no
\* cycle behind it, whatever the worker before it had seen; and a poll of a
\* worker that has not triggered yet triggers on whatever non-blank content
\* the clipboard holds, whatever the cooldown.
C29_FreshWorkerOnStart ==
    [][/\ (worker_thread' # worker_thread) =>
             LET w2 == workers'[worker_thread']
             IN  /\ workers[worker_thread'].pc = "none"
                 /\ w2.pc = "started"
                 /\ w2.last_content = EmptyText
                 /\ w2.last_process_time = 0
                 /\ w2.processed_count = 0
                 /\ ~w2.is_processing
                 /\ w2.cycle = "none"
       /\ \A i \in WorkerIds :
             (PollTick(i) /\ workers[i].last_content = EmptyText
                   /\ Strip(clipboard) # << >>) =>
                (/\ workers'[i].pc = "processing"
                 /\ workers'[i].last_content = clipboard)]_vars

\* C29 witness: the one text ever copied was read by the first worker (its
\* emission is queued); that worker has ended, monitoring was started
\* again, and the second worker, with a cooldown, has triggered on the same
\* text
C29_SecondWorkerReadsAgain ==
    /\ worker_thread = 2
    /\ workers[1].pc = "gone"
    /\ workers[2].pc = "processing"
    /\ workers[2].process_cooldown > 0
    /\ workers[2].last_content = TextA
    /\ workers[2].processed_count = 0
    /\ clipboard = TextA
    /\ copies = 1
    /\ sigq # << >>
    /\ last_log = "success:started"

====
